---- MODULE Spec2Model ----
(***************************************************************************)
(* Robot-side command server (examples/commander/command_tcp_server.py)    *)
(* and video relay (examples/commander/video_udp_streamer.py) as a set of  *)
(* Python threads interleaved statement by statement.                      *)
(*                                                                         *)
(*   main      the thread that calls CommandServer.start() and stop()      *)
(*   listener  CommandServer._listen_worker                                *)
(*   handler c CommandServer._handle_client for accepted connection c      *)
(*   worker c  VideoStreamer._stream_worker started by handler c           *)
(*                                                                         *)
(* and the controller (examples/commander/trilobot_client.py):             *)
(*                                                                         *)
(*   owner     the thread that calls connect(), send_command(), disconnect()*)
(*   reply receiver n   RobotClient._tcp_listen_worker of the n-th link    *)
(*   video receiver n   RobotClient._udp_listen_worker of the n-th link    *)
(*                                                                         *)
(* A thread object is identified by the connection whose handler created   *)
(* it.  Numbers (speeds, distances) are in tenths: 10 stands for 1.0.      *)
(***************************************************************************)
EXTENDS Naturals, Integers, Sequences, FiniteSets

MaxConns == 2
MaxReplies == 1
MaxCalls == 2
MaxFrames == 3
MaxLinks == 2
MaxOps == 3
MaxData == 2

None == 0
SelfConn == 0
UDP_PORT == 9001
ListenBacklog == 1
MAX_UDP_PACKET_SIZE == 65507

Conns == 1..MaxConns
Links == 1..MaxLinks
Owner == 0
RobotIp == 1
AllConns == Conns \cup {SelfConn}

BusyReply == "{\"error\": \"Server busy\"}\n"
PongReply == "{\"status\": \"pong\"}\n"

VARIABLES
    pcM,              \* position of the main thread in start()/stop()
    pcL,              \* position of the listener thread
    conn,             \* _listen_worker's local `conn`
    pcH,              \* position of each handler thread
    pcW,              \* position of each stream worker thread
    running,          \* CommandServer.running
    client_handler_thread,  \* CommandServer._client_handler_thread
    tcp_socket,       \* state of the listening socket
    backlog,          \* connections completed by the kernel, not yet accepted
    cst,              \* each client connection, seen from the server
    sent,             \* bytes written on each connection, one entry per sendall
    foundActive,      \* the arbiter's first look at the slot found an Active session
    streamer_running, \* VideoStreamer.running
    target_ip,        \* VideoStreamer.target_ip
    target_port,      \* VideoStreamer.target_port
    stream_thread,    \* VideoStreamer._stream_thread
    frame,            \* StreamingOutput.frame
    wframe,           \* _stream_worker's local `frame`
    udp_out,          \* datagrams handed to udp_socket.sendto, in order
    calls,            \* calls made on the actuator (Trilobot), in order
    line,             \* _handle_client's `line` while it is dispatched (0: none)
    start_args        \* <<target_ip, target_port>> of the last call of VideoStreamer.start by its owner

serverVars == <<pcM, pcL, conn, running, client_handler_thread, tcp_socket,
                backlog, foundActive>>
sessionVars == <<pcH, cst, sent, calls, line, start_args>>
relayVars == <<pcW, streamer_running, target_ip, target_port, stream_thread,
               frame, wframe, udp_out>>

\* the controller (examples/commander/trilobot_client.py)
VARIABLES
    is_connected,       \* RobotClient.is_connected
    client_running,     \* RobotClient._running
    client_tcp_socket,  \* RobotClient.tcp_socket (None, or the link whose socket it is)
    client_udp_socket,  \* RobotClient.udp_socket
    video_frame,        \* RobotClient._video_frame
    udata,              \* _udp_listen_worker's locals <<addr[0], data>>
    stack,              \* call stack of the owner and of each reply receiver thread
    pcU,                \* position of each video receiver thread
    rsock,              \* the socket a reply receiver is blocked on
    tsock,              \* state of each reliable socket the controller created
    usock,              \* state of each datagram socket the controller created
    peer,               \* the robot's end of each reliable connection
    wire,               \* actions written on each reliable connection, in order
    links,              \* number of calls of connect() that created a socket
    ops,                \* number of calls the owner has made
    last_call,          \* the owner's current or last call and how it ended
    disc_raised         \* some call of disconnect() ended with an exception

clientVars == <<is_connected, client_running, client_tcp_socket, client_udp_socket,
                video_frame, udata, stack, pcU, rsock, tsock, usock, peer, wire, links,
                ops, last_call, disc_raised>>
vars == <<serverVars, sessionVars, relayVars, clientVars>>

\* RobotClient.__init__
ControllerInit ==
    /\ is_connected = FALSE
    /\ client_running = FALSE
    /\ client_tcp_socket = None
    /\ client_udp_socket = None
    /\ video_frame = None
    /\ udata = [n \in Links |-> <<None, None>>]
    /\ stack = [t \in {Owner} \cup Links |-> <<>>]
    /\ pcU = [n \in Links |-> "none"]
    /\ rsock = [n \in Links |-> None]
    /\ tsock = [k \in Links |-> "none"]
    /\ usock = [k \in Links |-> "none"]
    /\ peer = [k \in Links |-> "none"]
    /\ wire = [k \in Links |-> <<>>]
    /\ links = 0
    /\ ops = 0
    /\ last_call = [op |-> "none", result |-> "none", wfail |-> FALSE]
    /\ disc_raised = FALSE

\* CommandServer.__init__ and VideoStreamer.__init__
Init ==
    /\ ControllerInit
    /\ pcM = "init"
    /\ pcL = "none"
    /\ conn = None
    /\ pcH = [c \in Conns |-> "none"]
    /\ pcW = [c \in Conns |-> "none"]
    /\ running = FALSE
    /\ client_handler_thread = None
    /\ tcp_socket = "open"
    /\ backlog = <<>>
    /\ cst = [c \in AllConns |-> "new"]
    /\ sent = [c \in AllConns |-> <<>>]
    /\ foundActive = [c \in AllConns |-> FALSE]
    /\ streamer_running = FALSE
    /\ target_ip = None
    /\ target_port = None
    /\ stream_thread = None
    /\ frame = None
    /\ wframe = [c \in Conns |-> None]
    /\ udp_out = <<>>
    /\ calls = <<>>
    /\ line = [c \in Conns |-> 0]
    /\ start_args = <<None, None>>

----------------------------------------------------------------------------
(* Thread objects                                                          *)

\* threading.Thread.is_alive() of handler thread c
HandlerAlive(c) == pcH[c] \notin {"none", "unstarted", "dead"}

\* threading.Thread.is_alive() of stream worker thread c
WorkerAlive(c) == pcW[c] \notin {"none", "unstarted", "dead"}

\* A Session is Active while its read loop runs
Active(c) == pcH[c] \in {"read", "parse"}

----------------------------------------------------------------------------
(* VideoStreamer.start / VideoStreamer.stop, one statement per step.  p is *)
(* the caller's position, q its next one: "ret" when the call returns,     *)
(* "raise" when it raises.                                                 *)

\* a start() that does not test whether the relay already runs
StartCheckRestarts(ip, port, p, q) ==
    /\ p = "vb_check"
    /\ q = IF ip = None \/ port = None THEN "ret" ELSE "vb_ip"
    /\ UNCHANGED relayVars

\* a start() that does not test its target address
StartCheckAnyIp(ip, port, p, q) ==
    /\ p = "vb_check"
    /\ q = IF streamer_running \/ port = None THEN "ret" ELSE "vb_ip"
    /\ UNCHANGED relayVars

\* start(): `if self.running: return`, `if not target_ip or not target_port: return`
StartCheck(ip, port, p, q) ==
    /\ p = "vb_check"
    /\ q = IF streamer_running \/ ip = None \/ port = None THEN "ret" ELSE "vb_ip"
    /\ UNCHANGED relayVars

\* start(): `self.target_ip = target_ip`
StartSetIp(ip, p, q) ==
    /\ p = "vb_ip" /\ q = "vb_port"
    /\ target_ip' = ip
    /\ UNCHANGED <<pcW, streamer_running, target_port, stream_thread, frame, wframe, udp_out>>

\* start(): `self.target_port = int(target_port)`
StartSetPort(port, p, q) ==
    /\ p = "vb_port" /\ q = "vb_run"
    /\ target_port' = port
    /\ UNCHANGED <<pcW, streamer_running, target_ip, stream_thread, frame, wframe, udp_out>>

\* start(): `self.running = True`
StartSetRunning(p, q) ==
    /\ p = "vb_run" /\ q = "vb_mk"
    /\ streamer_running' = TRUE
    /\ UNCHANGED <<pcW, target_ip, target_port, stream_thread, frame, wframe, udp_out>>

\* start(): `self._stream_thread = threading.Thread(...)`, a thread not yet started
StartMakeThread(c, p, q) ==
    /\ p = "vb_mk" /\ q = "vb_st"
    /\ stream_thread' = c
    /\ pcW' = [pcW EXCEPT ![c] = "unstarted"]
    /\ UNCHANGED <<streamer_running, target_ip, target_port, frame, wframe, udp_out>>

\* start(): `self._stream_thread.start()`; the worker begins recording
StartStartThread(c, p, q) ==
    /\ p = "vb_st" /\ q = "ret"
    /\ pcW' = [pcW EXCEPT ![stream_thread] = "loop"]
    /\ UNCHANGED <<streamer_running, target_ip, target_port, stream_thread, frame, wframe, udp_out>>

\* VideoStreamer.start(target_ip, target_port) called by handler thread c
StreamerStart(c, ip, port, p, q) ==
    \/ StartCheck(ip, port, p, q)
    \/ StartSetIp(ip, p, q)
    \/ StartSetPort(port, p, q)
    \/ StartSetRunning(p, q)
    \/ StartMakeThread(c, p, q)
    \/ StartStartThread(c, p, q)

\* stop(): `if not self.running: return`
StopCheck(p, q) ==
    /\ p = "vs_check"
    /\ q = IF streamer_running THEN "vs_clear" ELSE "ret"
    /\ UNCHANGED relayVars

\* stop(): `self.running = False`
StopClearRunning(p, q) ==
    /\ p = "vs_clear" /\ q = "vs_notify"
    /\ streamer_running' = FALSE
    /\ UNCHANGED <<pcW, target_ip, target_port, stream_thread, frame, wframe, udp_out>>

\* Condition.notify_all(): every thread waiting at this instant is woken
NotifyAll == [w \in Conns |-> IF pcW[w] = "waiting" THEN "woken" ELSE pcW[w]]

\* stop(): `with self.output.condition: self.output.condition.notify_all()`
StopNotify(p, q) ==
    /\ p = "vs_notify" /\ q = "vs_join"
    /\ pcW' = NotifyAll
    /\ UNCHANGED <<streamer_running, target_ip, target_port, stream_thread, frame, wframe, udp_out>>

\* Thread.join() raises RuntimeError on a thread that has not been started
JoinRaises(pc, t) == t # None /\ pc[t] = "unstarted"

\* stop(): `if self._stream_thread: self._stream_thread.join(timeout=5)`; the
\* join returns when the worker has ended or when the timeout expires
StopJoin(p, q) ==
    /\ p = "vs_join"
    /\ q = IF JoinRaises(pcW, stream_thread) THEN "raise" ELSE "vs_ip"
    /\ UNCHANGED relayVars

\* stop(): `self.target_ip = None`
StopClearIp(p, q) ==
    /\ p = "vs_ip" /\ q = "vs_port"
    /\ target_ip' = None
    /\ UNCHANGED <<pcW, streamer_running, target_port, stream_thread, frame, wframe, udp_out>>

\* stop(): `self.target_port = None`
StopClearPort(p, q) ==
    /\ p = "vs_port" /\ q = "ret"
    /\ target_port' = None
    /\ UNCHANGED <<pcW, streamer_running, target_ip, stream_thread, frame, wframe, udp_out>>

\* VideoStreamer.stop()
StreamerStop(p, q) ==
    \/ StopCheck(p, q)
    \/ StopClearRunning(p, q)
    \/ StopNotify(p, q)
    \/ StopJoin(p, q)
    \/ StopClearIp(p, q)
    \/ StopClearPort(p, q)

StartLabels == {"vb_check", "vb_ip", "vb_port", "vb_run", "vb_mk", "vb_st"}
StopLabels == {"vs_check", "vs_clear", "vs_notify", "vs_join", "vs_ip", "vs_port"}
CallLabels == StartLabels \cup StopLabels \cup {"ret", "raise"}

----------------------------------------------------------------------------
(* VideoStreamer._stream_worker                                            *)

\* `while self.running:`; leaving the loop stops the recording and ends the thread
WLoop(w) ==
    /\ pcW[w] = "loop"
    /\ pcW' = [pcW EXCEPT ![w] = IF streamer_running THEN "wait" ELSE "dead"]
    /\ UNCHANGED <<streamer_running, target_ip, target_port, stream_thread, frame, wframe, udp_out>>
    /\ UNCHANGED <<serverVars, sessionVars, clientVars>>

\* `with self.output.condition: self.output.condition.wait()`: the thread blocks
\* until a notify_all issued after this point
WWait(w) ==
    /\ pcW[w] = "wait"
    /\ pcW' = [pcW EXCEPT ![w] = "waiting"]
    /\ UNCHANGED <<streamer_running, target_ip, target_port, stream_thread, frame, wframe, udp_out>>
    /\ UNCHANGED <<serverVars, sessionVars, clientVars>>

\* after the wake-up, under the condition's lock:
\* `if not self.running: break` else `frame = self.output.frame`
WWoken(w) ==
    /\ pcW[w] = "woken"
    /\ IF streamer_running
       THEN /\ pcW' = [pcW EXCEPT ![w] = "send"]
            /\ wframe' = [wframe EXCEPT ![w] = frame]
       ELSE /\ pcW' = [pcW EXCEPT ![w] = "dead"]
            /\ UNCHANGED wframe
    /\ UNCHANGED <<streamer_running, target_ip, target_port, stream_thread, frame, udp_out>>
    /\ UNCHANGED <<serverVars, sessionVars, clientVars>>

\* the publication index of a frame (0 for None: nothing published yet)
FrameIndex(f) == f \div 2

\* StreamingOutput.write(buf), called by the camera's encoder for each frame while
\* a worker is recording: under the condition's lock, `self.frame = buf` and
\* `self.condition.notify_all()`
Publish ==
    /\ \E w \in Conns : WorkerAlive(w)
    /\ FrameIndex(frame) < MaxFrames
    /\ \E oversized \in BOOLEAN :
         frame' = 2 * (FrameIndex(frame) + 1) + (IF oversized THEN 1 ELSE 0)
    /\ pcW' = NotifyAll
    /\ UNCHANGED <<streamer_running, target_ip, target_port, stream_thread, wframe, udp_out>>
    /\ UNCHANGED <<serverVars, sessionVars, clientVars>>

\* A frame is a number: twice its publication index, plus one when its encoded
\* size exceeds one datagram
FrameLen(f) == IF f % 2 = 1 THEN MAX_UDP_PACKET_SIZE + 1 ELSE MAX_UDP_PACKET_SIZE

\* `if frame and self.target_ip and self.target_port:` and the size test under it
WSend(w) ==
    /\ pcW[w] = "send"
    /\ pcW' = [pcW EXCEPT ![w] =
                 IF wframe[w] # None /\ target_ip # None /\ target_port # None
                    /\ ~(FrameLen(wframe[w]) > MAX_UDP_PACKET_SIZE)
                 THEN "sendto" ELSE "loop"]
    /\ UNCHANGED <<streamer_running, target_ip, target_port, stream_thread, frame, wframe, udp_out>>
    /\ UNCHANGED <<serverVars, sessionVars, clientVars>>

\* `self.udp_socket.sendto(frame, (self.target_ip, self.target_port))`: the target
\* is read again; an address of None, a port that is None or out of range, or a
\* refused send, raises and is logged
WSendto(w) ==
    /\ pcW[w] = "sendto"
    /\ \E delivered \in BOOLEAN :
         udp_out' = IF delivered /\ target_ip # None /\ target_port > 0
                    THEN Append(udp_out, <<wframe[w], target_ip, target_port>>)
                    ELSE udp_out
    /\ pcW' = [pcW EXCEPT ![w] = "loop"]
    /\ UNCHANGED <<streamer_running, target_ip, target_port, stream_thread, frame, wframe>>
    /\ UNCHANGED <<serverVars, sessionVars, clientVars>>

----------------------------------------------------------------------------
(* CommandServer._parse_command.  A received line is the JSON value its    *)
(* text denotes, or a text json.loads rejects.  JSON values are tagged:    *)
(* t is the JSON type, v the value (a number in tenths, a string, a        *)
(* boolean, or for an object the mapping from its keys to JSON values).    *)

JNum(n) == [t |-> "num", v |-> n]
JStr(s) == [t |-> "str", v |-> s]
JBool(b) == [t |-> "bool", v |-> b]
JNull == [t |-> "null"]
JList == [t |-> "list"]
JObj(f) == [t |-> "obj", v |-> f]

\* a line after strip(): empty, a text json.loads rejects, or a JSON value
Blank == [blank |-> TRUE]
BadJson == [blank |-> FALSE, ok |-> FALSE]
Json(x) == [blank |-> FALSE, ok |-> TRUE, val |-> x]

\* dict.get(key, default)
Get(obj, key, default) == IF key \in DOMAIN obj THEN obj[key] ELSE default

\* str.lower() on the action names that occur
Lower(s) ==
    CASE s = "PING" -> "ping"
      [] s = "Exit" -> "exit"
      [] s = "FORWARD" -> "forward"
      [] OTHER -> s

\* the decimal texts float() accepts, among the strings that occur
FloatText(s) ==
    CASE s = "0.5" -> 5
      [] s = "2" -> 20
      [] OTHER -> -1

\* float(x) as ToFloat: a number as is, a boolean as 1.0 or 0.0, a numeric string parsed;
\* ValueError for another string, TypeError for None, a list or a dict
ToFloat(x) ==
    CASE x.t = "num" -> [err |-> "", v |-> x.v]
      [] x.t = "bool" -> [err |-> "", v |-> IF x.v THEN 10 ELSE 0]
      [] x.t = "str" -> IF FloatText(x.v) >= 0
                        THEN [err |-> "", v |-> FloatText(x.v)]
                        ELSE [err |-> "ValueError", v |-> 0]
      [] OTHER -> [err |-> "TypeError", v |-> 0]

\* int(x) as ToInt: a number truncated, a boolean as 1 or 0, an integer text parsed;
\* ValueError for another string, TypeError for None, a list or a dict
ToInt(x) ==
    CASE x.t = "num" -> [err |-> "", v |-> (x.v \div 10) * 10]
      [] x.t = "bool" -> [err |-> "", v |-> IF x.v THEN 10 ELSE 0]
      [] x.t = "str" -> IF x.v = "2"
                        THEN [err |-> "", v |-> 20]
                        ELSE [err |-> "ValueError", v |-> 0]
      [] OTHER -> [err |-> "TypeError", v |-> 0]

\* What one call of _parse_command does: cont is its return value, reply the
\* bytes it writes on the connection, call the actuator call it makes; exc names
\* the except clause that ended it ("" when none did)
Outcome(cont, reply, call, exc) ==
    [cont |-> cont, reply |-> reply, call |-> call, exc |-> exc]

Continue == Outcome(TRUE, <<>>, <<>>, "")
Caught(e) == Outcome(TRUE, <<>>, <<>>, e)
\* (mutant) an unanticipated exception after which the session reads on
FatalIgnored == Outcome(TRUE, <<>>, <<>>, "Exception")
Fatal == Outcome(FALSE, <<>>, <<>>, "Exception")

\* a write whose failure is swallowed
SendAllSwallowed(data, sendOk, call) ==
    IF sendOk THEN Outcome(TRUE, <<data>>, call, "") ELSE Outcome(TRUE, <<>>, call, "")

\* `conn.sendall(data)`: a failed write raises OSError, which only the last
\* except clause catches
SendAll(data, sendOk, call) ==
    IF sendOk THEN Outcome(TRUE, <<data>>, call, "") ELSE
    [cont |-> FALSE, reply |-> <<>>, call |-> call, exc |-> "Exception"]

\* (mutant) a motion command whose omitted speed is taken as 0.0
MotionStopsByDefault(method, cmd) ==
    LET speed == ToFloat(Get(cmd, "speed", JNum(0)))
    IN  IF speed.err # "" THEN Caught(speed.err)
        ELSE Outcome(TRUE, <<>>, <<method, speed.v>>, "")

\* one-speed motion commands: `speed = float(command.get('speed', 1.0))`
Motion(method, cmd) ==
    LET speed == ToFloat(Get(cmd, "speed", JNum(10)))
    IN  IF speed.err # "" THEN Caught(speed.err)
        ELSE Outcome(TRUE, <<>>, <<method, speed.v>>, "")

\* `left = float(command.get('left', 0.0))`, `right = float(command.get('right', 0.0))`
SetSpeeds(cmd) ==
    LET left == ToFloat(Get(cmd, "left", JNum(0)))
        right == ToFloat(Get(cmd, "right", JNum(0)))
    IN  IF left.err # "" THEN Caught(left.err)
        ELSE IF right.err # "" THEN Caught(right.err)
        ELSE Outcome(TRUE, <<>>, <<"set_motor_speeds", left.v, right.v>>, "")

\* `led_id = int(command.get('led'))`, `value = float(command.get('value'))`
SetLed(cmd) ==
    LET led == ToInt(Get(cmd, "led", JNull))
        value == ToFloat(Get(cmd, "value", JNull))
    IN  IF led.err # "" THEN Caught(led.err)
        ELSE IF value.err # "" THEN Caught(value.err)
        ELSE Outcome(TRUE, <<>>, <<"set_button_led", led.v, value.v>>, "")

\* `r = int(command.get('r', 0))` and likewise g, b
FillUnderlighting(cmd) ==
    LET r == ToInt(Get(cmd, "r", JNum(0)))
        g == ToInt(Get(cmd, "g", JNum(0)))
        b == ToInt(Get(cmd, "b", JNum(0)))
    IN  IF r.err # "" THEN Caught(r.err)
        ELSE IF g.err # "" THEN Caught(g.err)
        ELSE IF b.err # "" THEN Caught(b.err)
        ELSE Outcome(TRUE, <<>>, <<"fill_underlighting", r.v, g.v, b.v>>, "")

\* json.dumps({'status': 'distance', 'value': distance}) + '\n' for the distances
\* the sensor reports here
DistanceReply(d) ==
    IF d = 999 THEN "{\"status\": \"distance\", \"value\": 99.9}\n"
    ELSE "{\"status\": \"distance\", \"value\": 0.0}\n"

\* the if/elif chain on `action`
Dispatch(action, cmd, sendOk, dist) ==
    CASE action = "forward" -> Motion("forward", cmd)
      [] action = "backward" -> Motion("backward", cmd)
      [] action = "turn_left" -> Motion("turn_left", cmd)
      [] action = "turn_right" -> Motion("turn_right", cmd)
      [] action = "set_speeds" -> SetSpeeds(cmd)
      [] action = "stop" -> Outcome(TRUE, <<>>, <<"stop">>, "")
      [] action = "coast" -> Outcome(TRUE, <<>>, <<"coast">>, "")
      [] action = "set_led" -> SetLed(cmd)
      [] action = "fill_underlighting" -> FillUnderlighting(cmd)
      [] action = "read_distance" ->
            SendAll(DistanceReply(dist), sendOk, <<"read_distance">>)
      [] action = "ping" -> SendAll(PongReply, sendOk, <<>>)
      [] action = "exit" -> Outcome(FALSE, <<>>, <<>>, "")
      [] OTHER -> Continue

\* _parse_command(command_data, conn): sendOk says whether a write on conn
\* succeeds, dist is what the distance sensor reports
ParseCommand(command_data, sendOk, dist) ==
    IF ~command_data.ok THEN Caught("JSONDecodeError")
    ELSE IF command_data.val.t # "obj" THEN Fatal
    ELSE LET cmd == command_data.val.v
             a == Get(cmd, "action", JStr(""))
         IN  IF a.t # "str" THEN Fatal
             ELSE IF Lower(a.v) = "" THEN Continue
             ELSE Dispatch(Lower(a.v), cmd, sendOk, dist)

----------------------------------------------------------------------------
(* CommandServer._handle_client, thread of connection c                    *)

Cmd(a) == Json(JObj([action |-> JStr(a)]))

\* an object with an action and one more field
Cmd1(a, k, x) == Json(JObj([f \in {"action", k} |-> IF f = "action" THEN JStr(a) ELSE x]))

\* set_led with both fields
CmdLed(led, value) ==
    Json(JObj([f \in {"action", "led", "value"} |->
                 CASE f = "action" -> JStr("set_led")
                   [] f = "led" -> led
                   [] OTHER -> value]))

\* set_speeds with both fields
CmdSpeeds(left, right) ==
    Json(JObj([f \in {"action", "left", "right"} |->
                 CASE f = "action" -> JStr("set_speeds")
                   [] f = "left" -> left
                   [] OTHER -> right]))

\* the lines a peer sends in the concurrency model
SpecLines == << Blank, Cmd("ping"), Cmd("exit"), BadJson >>

\* lines that are not a command of the protocol: a JSON value that is not an
\* object, an action that is missing, not a string or unknown, a parameter that
\* is missing or of the wrong type
MalformedLines ==
    << Json(JList), Json(JNum(10)), Json(JStr("ping")), Json(JNull),
       Json(JObj([action |-> JNum(50)])), Json(JObj([action |-> JNull])),
       Json(JObj([speed |-> JNum(5)])), Cmd(""), Cmd("dance"),
       Cmd1("forward", "speed", JStr("fast")), Cmd1("forward", "speed", JNull),
       Cmd1("turn_left", "speed", JList),
       Cmd("set_led"), Cmd1("set_led", "led", JNum(20)),
       CmdLed(JStr("x"), JNum(5)), CmdSpeeds(JNum(5), JStr("fast")),
       Cmd1("fill_underlighting", "g", JStr("red")) >>

\* commands of the protocol
ValidLines ==
    << Cmd("PING"), Cmd("Exit"), Cmd("read_distance"), Cmd("stop"), Cmd("coast"),
       Cmd("forward"), Cmd1("FORWARD", "speed", JNum(5)), Cmd("backward"),
       Cmd1("turn_right", "speed", JNum(20)), Cmd("set_speeds"),
       Cmd1("set_speeds", "left", JNum(5)), CmdSpeeds(JNum(5), JNum(-5)),
       CmdLed(JNum(20), JNum(5)), Cmd1("fill_underlighting", "r", JNum(2550)),
       Cmd1("turn_left", "speed", JNum(10)), Cmd("turn_right") >>

\* the lines a peer sends in the session model; SpecLines ends with the line
\* that is not JSON, the first malformed one
SessionLines == SpecLines \o MalformedLines \o ValidLines

Malformed(i) == i \in Len(SpecLines)..(Len(SpecLines) + Len(MalformedLines))

\* line i is an object whose action, lowercased, is `a`
IsCommand(i, a) ==
    LET l == SessionLines[i]
    IN  /\ l.ok
        /\ l.val.t = "obj"
        /\ "action" \in DOMAIN l.val.v
        /\ l.val.v.action.t = "str"
        /\ Lower(l.val.v.action.v) = a

Distances == {0, 999}

\* `self.video_streamer.start(client_ip, self.udp_port)`, statement by statement
HStreamerStart(c) ==
    /\ pcH[c] \in StartLabels
    /\ \E q \in CallLabels :
         /\ StreamerStart(c, c, UDP_PORT, pcH[c], q)
         /\ pcH' = [pcH EXCEPT ![c] = IF q = "ret" THEN "read" ELSE q]
    /\ UNCHANGED <<cst, sent, calls, line, start_args, clientVars>>
    /\ UNCHANGED serverVars

\* the replies and actuator calls logged stay within MaxReplies and MaxCalls
\* whatever the dispatch of command_data on connection c does
Fits(c, command_data) ==
    \A sendOk \in BOOLEAN, dist \in Distances :
        LET o == ParseCommand(command_data, sendOk, dist)
        IN  /\ Len(sent[c]) + Len(o.reply) <= MaxReplies
            /\ Len(calls) + (IF o.call = <<>> THEN 0 ELSE 1) <= MaxCalls

\* `for line in client_file:` yields a line; `line.strip()`, and a blank line is
\* skipped (continue).  lines[i] is the line received.
HRead(c, lines) ==
    /\ pcH[c] = "read"
    /\ \E i \in 1..Len(lines) :
         IF lines[i].blank
         THEN UNCHANGED <<pcH, line>>
         ELSE /\ Fits(c, lines[i])
              /\ line' = [line EXCEPT ![c] = i]
              /\ pcH' = [pcH EXCEPT ![c] = "parse"]
    /\ UNCHANGED <<cst, sent, calls, start_args, clientVars>>
    /\ UNCHANGED <<serverVars, relayVars>>

\* `if not self._parse_command(line, conn): break`
HParse(c, lines) ==
    /\ pcH[c] = "parse"
    /\ \E sendOk \in BOOLEAN, dist \in Distances :
         LET o == ParseCommand(lines[line[c]], sendOk, dist)
         IN  /\ sent' = [sent EXCEPT ![c] = sent[c] \o o.reply]
             /\ calls' = IF o.call = <<>> THEN calls ELSE Append(calls, o.call)
             /\ pcH' = [pcH EXCEPT ![c] = IF o.cont THEN "read" ELSE "vs_check"]
    /\ line' = [line EXCEPT ![c] = 0]
    /\ UNCHANGED <<cst, start_args, clientVars>>
    /\ UNCHANGED <<serverVars, relayVars>>

\* the read loop ends without a command: the peer closed (end of file), or the
\* read raised (ConnectionResetError, another Exception); all reach `finally`
HReadEnd(c) ==
    /\ pcH[c] = "read"
    /\ pcH' = [pcH EXCEPT ![c] = "vs_check"]
    /\ UNCHANGED <<cst, sent, calls, line, start_args, clientVars>>
    /\ UNCHANGED <<serverVars, relayVars>>

\* finally: `self.video_streamer.stop()`, statement by statement; an exception
\* raised by it leaves the finally block and ends the thread
HStreamerStop(c) ==
    /\ pcH[c] \in StopLabels
    /\ \E q \in CallLabels :
         /\ StreamerStop(pcH[c], q)
         /\ pcH' = [pcH EXCEPT ![c] = CASE q = "ret" -> "close"
                                         [] q = "raise" -> "dead"
                                         [] OTHER -> q]
    /\ UNCHANGED <<cst, sent, calls, line, start_args, clientVars>>
    /\ UNCHANGED serverVars

\* a teardown that leaves the connection open
HCloseSkipped(c) ==
    /\ pcH[c] = "close"
    /\ pcH' = [pcH EXCEPT ![c] = "clear"]
    /\ UNCHANGED <<cst, sent, calls, line, start_args, clientVars>>
    /\ UNCHANGED <<serverVars, relayVars>>

\* finally: `conn.close()`
HClose(c) ==
    /\ pcH[c] = "close"
    /\ cst' = [cst EXCEPT ![c] = "closed"]
    /\ pcH' = [pcH EXCEPT ![c] = "clear"]
    /\ UNCHANGED <<sent, calls, line, start_args, clientVars>>
    /\ UNCHANGED <<serverVars, relayVars>>

\* a teardown that ends without releasing the slot
HClearKeepsSlot(c) ==
    /\ pcH[c] = "clear"
    /\ pcH' = [pcH EXCEPT ![c] = "dead"]
    /\ UNCHANGED <<cst, sent, calls, line, start_args, clientVars>>
    /\ UNCHANGED <<serverVars, relayVars>>

\* finally: `self._client_handler_thread = None`, after which the thread ends
HClear(c) ==
    /\ pcH[c] = "clear"
    /\ client_handler_thread' = None
    /\ pcH' = [pcH EXCEPT ![c] = "dead"]
    /\ UNCHANGED <<pcM, pcL, conn, running, tcp_socket, backlog, foundActive>>
    /\ UNCHANGED <<cst, sent, calls, line, start_args, clientVars>>
    /\ UNCHANGED relayVars

----------------------------------------------------------------------------
(* CommandServer._listen_worker                                            *)

\* `self.tcp_socket.bind(...)`, `self.tcp_socket.listen(1)`: OSError on a closed
\* socket, raised outside the try, ends the thread
LBind ==
    /\ pcL = "bind"
    /\ IF tcp_socket = "closed"
       THEN pcL' = "dead" /\ UNCHANGED tcp_socket
       ELSE pcL' = "loop" /\ tcp_socket' = "listening"
    /\ UNCHANGED <<pcM, conn, running, client_handler_thread, backlog, foundActive>>
    /\ UNCHANGED <<sessionVars, relayVars, clientVars>>

\* `while self.running:`
LLoop ==
    /\ pcL = "loop"
    /\ pcL' = IF running THEN "accept" ELSE "done"
    /\ UNCHANGED <<pcM, conn, running, client_handler_thread, tcp_socket, backlog, foundActive>>
    /\ UNCHANGED <<sessionVars, relayVars, clientVars>>

\* `self.tcp_socket.accept()` is called: OSError at once on a closed socket
\* (except OSError: break), else the thread blocks in the call
LAcceptCall ==
    /\ pcL = "accept"
    /\ pcL' = IF tcp_socket = "closed" THEN "done" ELSE "accepting"
    /\ UNCHANGED <<pcM, conn, running, client_handler_thread, tcp_socket, backlog, foundActive>>
    /\ UNCHANGED <<sessionVars, relayVars, clientVars>>

\* accept() returns the oldest pending connection; closing the listening socket
\* from another thread does not wake a blocked accept
LAccept ==
    /\ pcL = "accepting"
    /\ backlog # <<>>
    /\ conn' = Head(backlog)
    /\ backlog' = Tail(backlog)
    /\ cst' = [cst EXCEPT ![Head(backlog)] = "open"]
    /\ pcL' = "chk"
    /\ UNCHANGED <<pcM, running, client_handler_thread, tcp_socket, foundActive>>
    /\ UNCHANGED <<pcH, sent, calls, line, start_args, clientVars>>
    /\ UNCHANGED relayVars

\* `if not self.running: conn.close(); break`
LCheckRunning ==
    /\ pcL = "chk"
    /\ IF running
       THEN pcL' = "rd1" /\ UNCHANGED cst
       ELSE pcL' = "done" /\ cst' = [cst EXCEPT ![conn] = "closed"]
    /\ UNCHANGED <<pcM, conn, running, client_handler_thread, tcp_socket, backlog, foundActive>>
    /\ UNCHANGED <<pcH, sent, calls, line, start_args, clientVars>>
    /\ UNCHANGED relayVars

\* `with self._client_lock: if self._client_handler_thread and ...`: the first
\* read of the slot; None goes to the else branch
LSlotTruthy ==
    /\ pcL = "rd1"
    /\ pcL' = IF client_handler_thread = None THEN "mk" ELSE "rd2"
    /\ foundActive' = [foundActive EXCEPT ![conn] =
                          client_handler_thread # None /\ Active(client_handler_thread)]
    /\ UNCHANGED <<pcM, conn, running, client_handler_thread, tcp_socket, backlog>>
    /\ UNCHANGED <<sessionVars, relayVars, clientVars>>

\* an arbiter that promotes whatever the slot holds
LSlotAliveSkipped ==
    /\ pcL = "rd2"
    /\ pcL' = IF client_handler_thread = None THEN "sleep" ELSE "mk"
    /\ UNCHANGED <<pcM, conn, running, client_handler_thread, tcp_socket, backlog, foundActive>>
    /\ UNCHANGED <<sessionVars, relayVars, clientVars>>

\* `... and self._client_handler_thread.is_alive()`: the slot is read again and
\* is_alive called on what it holds; on None that raises AttributeError, which
\* `except Exception` catches
LSlotAlive ==
    /\ pcL = "rd2"
    /\ pcL' = IF client_handler_thread = None THEN "sleep"
              ELSE IF HandlerAlive(client_handler_thread) THEN "busy" ELSE "mk"
    /\ UNCHANGED <<pcM, conn, running, client_handler_thread, tcp_socket, backlog, foundActive>>
    /\ UNCHANGED <<sessionVars, relayVars, clientVars>>

\* `conn.sendall(b'{"error": "Server busy"}\n')`
LSendBusy ==
    /\ pcL = "busy"
    /\ sent' = [sent EXCEPT ![conn] = Append(sent[conn], BusyReply)]
    /\ pcL' = "rej_close"
    /\ UNCHANGED <<pcM, conn, running, client_handler_thread, tcp_socket, backlog, foundActive>>
    /\ UNCHANGED <<pcH, cst, calls, line, start_args, clientVars>>
    /\ UNCHANGED relayVars

\* the busy reply cannot be written (the peer is gone): sendall raises OSError,
\* and `except OSError` breaks out of the accept loop
LSendBusyFail ==
    /\ pcL = "busy"
    /\ pcL' = "done"
    /\ UNCHANGED <<pcM, conn, running, client_handler_thread, tcp_socket, backlog, foundActive>>
    /\ UNCHANGED <<sessionVars, relayVars, clientVars>>

\* `conn.close()` of the rejected connection
LRejectClose ==
    /\ pcL = "rej_close"
    /\ cst' = [cst EXCEPT ![conn] = "closed"]
    /\ pcL' = "loop"
    /\ UNCHANGED <<pcM, conn, running, client_handler_thread, tcp_socket, backlog, foundActive>>
    /\ UNCHANGED <<pcH, sent, calls, line, start_args, clientVars>>
    /\ UNCHANGED relayVars

\* `self._client_handler_thread = threading.Thread(target=self._handle_client, ...)`
LMakeThread ==
    /\ pcL = "mk"
    /\ client_handler_thread' = conn
    /\ pcH' = [pcH EXCEPT ![conn] = "unstarted"]
    /\ pcL' = "st"
    /\ UNCHANGED <<pcM, conn, running, tcp_socket, backlog, foundActive>>
    /\ UNCHANGED <<cst, sent, calls, line, start_args, clientVars>>
    /\ UNCHANGED relayVars

\* `self._client_handler_thread.start()`: the slot is read again
LStartThread ==
    /\ pcL = "st"
    /\ IF client_handler_thread = None
       THEN pcL' = "sleep" /\ UNCHANGED pcH
       ELSE /\ pcH' = [pcH EXCEPT ![client_handler_thread] = "vb_check"]
            /\ pcL' = "loop"
    /\ UNCHANGED <<pcM, conn, running, client_handler_thread, tcp_socket, backlog, foundActive>>
    /\ UNCHANGED <<cst, sent, calls, line, start_args, clientVars>>
    /\ UNCHANGED relayVars

\* `except Exception: ... time.sleep(1)`, then the loop goes on
LSleep ==
    /\ pcL = "sleep"
    /\ pcL' = "loop"
    /\ UNCHANGED <<pcM, conn, running, client_handler_thread, tcp_socket, backlog, foundActive>>
    /\ UNCHANGED <<sessionVars, relayVars, clientVars>>

----------------------------------------------------------------------------
(* CommandServer.start / CommandServer.stop, called by the main thread     *)

\* start(): `self.running = True`, then the listen thread is created and started
ServerStart ==
    /\ pcM = "init"
    /\ running' = TRUE
    /\ pcL' = "bind"
    /\ pcM' = "idle"
    /\ UNCHANGED <<conn, client_handler_thread, tcp_socket, backlog, foundActive>>
    /\ UNCHANGED <<sessionVars, relayVars, clientVars>>

\* stop(): past `if not self.running: return`, `self.running = False`
StopBegin ==
    /\ pcM = "idle"
    /\ running' = FALSE
    /\ pcM' = "vs_check"
    /\ UNCHANGED <<pcL, conn, client_handler_thread, tcp_socket, backlog, foundActive>>
    /\ UNCHANGED <<sessionVars, relayVars, clientVars>>

\* stop(): `self.video_streamer.stop()`, statement by statement; an exception
\* raised by it propagates out of stop()
StopStreamer ==
    /\ pcM \in StopLabels
    /\ \E q \in CallLabels :
         /\ StreamerStop(pcM, q)
         /\ pcM' = CASE q = "ret" -> "selfconnect"
                     [] q = "raise" -> "raised"
                     [] OTHER -> q
    /\ UNCHANGED <<pcL, conn, running, client_handler_thread, tcp_socket, backlog, foundActive>>
    /\ UNCHANGED <<sessionVars, clientVars>>

\* stop(): the self-directed connection, `s.connect(...)` with a 0.5 s timeout
\* inside `try ... except Exception: pass`; it is queued when the socket listens
\* and its queue has room
StopSelfConnect ==
    /\ pcM = "selfconnect"
    /\ backlog' = IF tcp_socket = "listening" /\ Len(backlog) < ListenBacklog
                  THEN Append(backlog, SelfConn) ELSE backlog
    /\ pcM' = "sockclose"
    /\ UNCHANGED <<pcL, conn, running, client_handler_thread, tcp_socket, foundActive>>
    /\ UNCHANGED <<sessionVars, relayVars, clientVars>>

\* stop(): `self.tcp_socket.close()`
StopCloseSocket ==
    /\ pcM = "sockclose"
    /\ tcp_socket' = "closed"
    /\ pcM' = "join_listen"
    /\ UNCHANGED <<pcL, conn, running, client_handler_thread, backlog, foundActive>>
    /\ UNCHANGED <<sessionVars, relayVars, clientVars>>

\* stop(): `self._listen_thread.join(timeout=2)` returns when the listener has
\* ended or when the timeout expires
StopJoinListen ==
    /\ pcM = "join_listen"
    /\ pcM' = "join_client"
    /\ UNCHANGED <<pcL, conn, running, client_handler_thread, tcp_socket, backlog, foundActive>>
    /\ UNCHANGED <<sessionVars, relayVars, clientVars>>

\* stop(): `if self._client_handler_thread:`
StopSlotTruthy ==
    /\ pcM = "join_client"
    /\ pcM' = IF client_handler_thread = None THEN "stopped" ELSE "join_client2"
    /\ UNCHANGED <<pcL, conn, running, client_handler_thread, tcp_socket, backlog, foundActive>>
    /\ UNCHANGED <<sessionVars, relayVars, clientVars>>

\* stop(): `self._client_handler_thread.join(timeout=2)`: the slot is read again;
\* None has no join (AttributeError), an unstarted thread cannot be joined
\* (RuntimeError); otherwise the join returns at the handler's end or on timeout
StopJoinClient ==
    /\ pcM = "join_client2"
    /\ pcM' = IF client_handler_thread = None \/ JoinRaises(pcH, client_handler_thread)
              THEN "raised" ELSE "stopped"
    /\ UNCHANGED <<pcL, conn, running, client_handler_thread, tcp_socket, backlog, foundActive>>
    /\ UNCHANGED <<sessionVars, relayVars, clientVars>>

----------------------------------------------------------------------------
(* The network                                                             *)

\* a client's connect() completes and waits in the accept queue; clients are
\* interchangeable, so they connect in the order of their numbers
ClientConnect(c) ==
    /\ cst[c] = "new"
    /\ c = 1 \/ cst[c - 1] # "new"
    /\ tcp_socket = "listening"
    /\ Len(backlog) < ListenBacklog
    /\ backlog' = Append(backlog, c)
    /\ cst' = [cst EXCEPT ![c] = "queued"]
    /\ UNCHANGED <<pcM, pcL, conn, running, client_handler_thread, tcp_socket, foundActive>>
    /\ UNCHANGED <<pcH, sent, calls, line, start_args, clientVars>>
    /\ UNCHANGED relayVars

----------------------------------------------------------------------------
Main ==
    \/ ServerStart
    \/ StopBegin
    \/ StopStreamer
    \/ StopSelfConnect
    \/ StopCloseSocket
    \/ StopJoinListen
    \/ StopSlotTruthy
    \/ StopJoinClient

Listener ==
    \/ LBind
    \/ LLoop
    \/ LAcceptCall
    \/ LAccept
    \/ LCheckRunning
    \/ LSlotTruthy
    \/ LSlotAlive
    \/ LSendBusy
    \/ LRejectClose
    \/ LMakeThread
    \/ LStartThread
    \/ LSleep

\* the steps a handler takes on its own, without input from its peer
HandlerStep(c) ==
    \/ HStreamerStart(c)
    \/ HParse(c, SpecLines)
    \/ HStreamerStop(c)
    \/ HClose(c)
    \/ HClear(c)

\* the steps of a session whose peer sends the lines of SessionLines
SessionStep(c) ==
    \/ HRead(c, SessionLines)
    \/ HParse(c, SessionLines)
    \/ HReadEnd(c)
    \/ HStreamerStop(c)
    \/ HClose(c)
    \/ HClear(c)

\* the steps of a stream worker while no frame is published
WorkerStep(w) ==
    \/ WLoop(w)
    \/ WWait(w)
    \/ WWoken(w)
    \/ WSend(w)
    \/ WSendto(w)

\* The server's threads and its clients.  The stream workers started on the way
\* stay where start() left them: their own steps (WorkerStep and the frames, in
\* RelaySpec) change pcW, wframe and udp_out only, and of those the steps below
\* read only whether a thread object has been started, which no worker step changes.
Next ==
    \/ Main
    \/ Listener
    \/ \E c \in Conns : HandlerStep(c)
    \/ \E c \in Conns : HRead(c, SpecLines)
    \/ \E c \in Conns : HReadEnd(c)
    \/ \E c \in Conns : ClientConnect(c)

\* the server with peers that stay reachable while the busy reply is written
Spec == Init /\ [][Next]_vars

\* ... and with peers that may be gone by then
FaultNext == Next \/ LSendBusyFail

FaultSpec == Init /\ [][FaultNext]_vars

\* what stop() does once it has been called
StopProgress ==
    \/ StopStreamer
    \/ StopSelfConnect
    \/ StopCloseSocket
    \/ StopJoinListen
    \/ StopSlotTruthy
    \/ StopJoinClient

\* Every started thread keeps being scheduled: a step it can take on its own is
\* eventually taken.  Nothing is assumed of the clients (connecting, sending,
\* closing) nor of when start() and stop() are called.
Fairness ==
    /\ WF_vars(StopProgress)
    /\ WF_vars(Listener)
    /\ \A c \in Conns : WF_vars(HandlerStep(c))

LiveSpec == Init /\ [][FaultNext]_vars /\ Fairness

\* The listener is blocked in accept() with nothing pending
ListenerBlocked == pcL = "accepting" /\ backlog = <<>>

\* Handler h waits for its peer, or for the stream worker (join of up to 5 s)
HandlerBlocked(h) == pcH[h] \in {"read", "vs_join"}

\* A join(timeout=2) in stop() that returns with its thread still alive has run
\* into the timeout: the thread was blocked for the two seconds, not merely
\* between two statements.  A join that raises does so at once.
StopJoinListenTimed ==
    /\ StopJoinListen
    /\ pcL \in {"done", "dead"} \/ ListenerBlocked

StopJoinClientTimed ==
    /\ StopJoinClient
    /\ client_handler_thread # None /\ HandlerAlive(client_handler_thread)
         => HandlerBlocked(client_handler_thread)

TimedStopProgress ==
    \/ StopStreamer
    \/ StopSelfConnect
    \/ StopCloseSocket
    \/ StopJoinListenTimed
    \/ StopSlotTruthy
    \/ StopJoinClientTimed

TimedNext ==
    \/ ServerStart
    \/ StopBegin
    \/ TimedStopProgress
    \/ Listener
    \/ LSendBusyFail
    \/ \E c \in Conns : HandlerStep(c)
    \/ \E c \in Conns : HRead(c, SpecLines)
    \/ \E c \in Conns : HReadEnd(c)
    \/ \E c \in Conns : ClientConnect(c)

\* LiveSpec with the joins of stop() timed as above
TimedLiveSpec ==
    /\ Init /\ [][TimedNext]_vars
    /\ WF_vars(TimedStopProgress)
    /\ WF_vars(Listener)
    /\ \A c \in Conns : WF_vars(HandlerStep(c))

\* The first client has been promoted and its handler has entered the read loop
SessionInit ==
    /\ ControllerInit
    /\ pcM = "idle"
    /\ pcL = "accepting"
    /\ conn = 1
    /\ pcH = [c \in Conns |-> IF c = 1 THEN "read" ELSE "none"]
    /\ pcW = [c \in Conns |-> IF c = 1 THEN "loop" ELSE "none"]
    /\ running = TRUE
    /\ client_handler_thread = 1
    /\ tcp_socket = "listening"
    /\ backlog = <<>>
    /\ cst = [c \in AllConns |-> IF c = 1 THEN "open" ELSE "new"]
    /\ sent = [c \in AllConns |-> <<>>]
    /\ foundActive = [c \in AllConns |-> FALSE]
    /\ streamer_running = TRUE
    /\ target_ip = 1
    /\ target_port = UDP_PORT
    /\ stream_thread = 1
    /\ frame = None
    /\ wframe = [c \in Conns |-> None]
    /\ udp_out = <<>>
    /\ calls = <<>>
    /\ line = [c \in Conns |-> 0]
    /\ start_args = <<None, None>>

SessionNext == \E c \in Conns : SessionStep(c)

\* one session, from its first line to the end of its handler
SessionSpec == SessionInit /\ [][SessionNext]_vars

RelayNext ==
    \/ Publish
    \/ \E w \in Conns : WorkerStep(w)
    \/ \E c \in Conns : HReadEnd(c)
    \/ \E c \in Conns : HStreamerStop(c)
    \/ \E c \in Conns : HClose(c)
    \/ \E c \in Conns : HClear(c)

\* the relay of one session: the camera publishes, the worker forwards, and the
\* session may end at any time
RelaySpec == SessionInit /\ [][RelayNext]_vars

\* the finally block of a handler
Teardown(c) == HStreamerStop(c) \/ HClose(c) \/ HClear(c)

\* RelaySpec with the worker and the handler's teardown scheduled fairly; nothing
\* is assumed of the camera (it may stop publishing) nor of the peer
RelayLiveSpec ==
    /\ SessionInit /\ [][RelayNext]_vars
    /\ \A w \in Conns : WF_vars(WorkerStep(w))
    /\ \A c \in Conns : WF_vars(Teardown(c))

----------------------------------------------------------------------------
(* A VideoStreamer driven by its owner alone, as in the module's self-test: *)
(* the main thread calls start(target_ip, target_port) and stop().          *)

\* the addresses and ports a caller may pass: None stands for what Python
\* takes as false (None, an empty address, port 0)
ArgIps == {None} \cup Conns
ArgPorts == {None, 0 - 1, UDP_PORT}

\* the next thread object start() would create
FreshWorker == CHOOSE w \in Conns : pcW[w] = "none" /\ \A v \in Conns : pcW[v] = "none" => w <= v

\* the owner calls start(ip, port)
ApiStartCall ==
    /\ pcM = "init"
    /\ \E w \in Conns : pcW[w] = "none"
    /\ \E ip \in ArgIps, port \in ArgPorts : start_args' = <<ip, port>>
    /\ pcM' = "vb_check"
    /\ UNCHANGED <<pcL, conn, running, client_handler_thread, tcp_socket, backlog, foundActive>>
    /\ UNCHANGED <<pcH, cst, sent, calls, line, clientVars>>
    /\ UNCHANGED relayVars

\* start(), statement by statement
ApiStart ==
    /\ pcM \in StartLabels
    /\ \E q \in CallLabels :
         /\ StreamerStart(FreshWorker, start_args[1], start_args[2], pcM, q)
         /\ pcM' = IF q = "ret" THEN "init" ELSE q
    /\ UNCHANGED <<pcL, conn, running, client_handler_thread, tcp_socket, backlog, foundActive>>
    /\ UNCHANGED <<sessionVars, clientVars>>

\* the owner calls stop()
ApiStopCall ==
    /\ pcM = "init"
    /\ start_args' = <<None, None>>
    /\ pcM' = "vs_check"
    /\ UNCHANGED <<pcL, conn, running, client_handler_thread, tcp_socket, backlog, foundActive>>
    /\ UNCHANGED <<pcH, cst, sent, calls, line, clientVars>>
    /\ UNCHANGED relayVars

\* stop(), statement by statement; an exception it raises ends the owner
ApiStop ==
    /\ pcM \in StopLabels
    /\ \E q \in CallLabels :
         /\ StreamerStop(pcM, q)
         /\ pcM' = CASE q = "ret" -> "init"
                      [] q = "raise" -> "raised"
                      [] OTHER -> q
    /\ UNCHANGED <<pcL, conn, running, client_handler_thread, tcp_socket, backlog, foundActive>>
    /\ UNCHANGED <<sessionVars, clientVars>>

ApiNext ==
    \/ ApiStartCall
    \/ ApiStart
    \/ ApiStopCall
    \/ ApiStop
    \/ Publish
    \/ \E w \in Conns : WorkerStep(w)

ApiSpec == Init /\ [][ApiNext]_vars

----------------------------------------------------------------------------
(* Properties of the command server                                        *)

\* the accept loop holds connection c between accept() and its decision
Handling(c) == conn = c /\ pcL \in {"chk", "rd1", "rd2", "busy", "rej_close", "mk", "st"}

\* stop() has been called on the running server
StopCalled == pcM \notin {"init", "idle"}

\* the handler of c is in its finally block
TearingDown(c) == pcH[c] \in StopLabels \cup {"close", "clear"}

\* C1: at any moment at most one client session is Active
AtMostOneActive == \A a, b \in Conns : Active(a) /\ Active(b) => a = b

\* a session is Active and another connection has been turned away with the busy reply
ActiveAndRejected ==
    \E a, b \in Conns : Active(a) /\ a # b /\ sent[b] = <<BusyReply>> /\ cst[b] = "closed"

\* C2: a connection accepted while a session is Active, once the accept loop is done
\* with it, has been sent exactly one busy reply, is closed, and was never promoted
BusyRejected ==
    \A c \in Conns : foundActive[c] /\ ~Handling(c)
                       => sent[c] = <<BusyReply>> /\ cst[c] = "closed" /\ pcH[c] = "none"

\* C3: the arbiter's check cannot interleave with a session's teardown: every
\* accepted connection ends rejected (closed) or promoted (it has a handler), and
\* none is left open with neither once the accept loop has moved on
ArbitrationDecides ==
    \A c \in Conns : cst[c] = "open" /\ pcH[c] = "none" => Handling(c)

\* C4: after stop() is called the accept loop eventually exits and stop() returns
StopTerminates == StopCalled ~> (pcL \in {"done", "dead"} /\ pcM = "stopped")

\* C5: a session that is Active before stop() is called terminates once stop()
\* is called, whatever its peer sends or does not send
ShutdownEndsSession ==
    \A c \in Conns :
        [](Active(c) /\ ~StopCalled => [](StopCalled => <>(pcH[c] = "dead")))

\* C6: the exit command ends the read loop; a session that has left its read loop
\* terminates with the slot released; and a connection the arbiter finds the slot
\* free for becomes the Active session
ExitReleasesSlot ==
    /\ [](\A ok \in BOOLEAN, d \in Distances : ~ParseCommand(Cmd("exit"), ok, d).cont)
    /\ \A c \in Conns : TearingDown(c) ~> (pcH[c] = "dead" /\ client_handler_thread = None)
    /\ \A c \in Conns :
         (conn = c /\ pcL = "rd1" /\ client_handler_thread = None) ~> Active(c)

\* a session has ended and a later connection is the Active session
LaterPromoted == \E a, b \in Conns : a < b /\ pcH[a] = "dead" /\ Active(b)

\* C7: when a handler clears the slot it has stopped the relay and closed its
\* connection
TeardownOrder ==
    \A c \in Conns :
        /\ pcH[c] = "clear" => cst[c] = "closed" /\ ~streamer_running
        /\ pcH[c] = "dead" /\ client_handler_thread = None
             => cst[c] = "closed" /\ (stream_thread = c => ~streamer_running)

\* a session is about to clear the slot, the relay it started stopped
ClearingAfterStop ==
    \E c \in Conns : pcH[c] = "clear" /\ stream_thread = c /\ ~streamer_running

----------------------------------------------------------------------------
(* Properties of the command dispatcher                                    *)

\* the handler of c returns from _parse_command
Dispatched(c) == pcH[c] = "parse" /\ pcH'[c] # "parse"

\* C8: a malformed line gets no reply and leaves the session Active, in its read
\* loop
MalformedIgnored ==
    [][\A c \in Conns : Dispatched(c) /\ Malformed(line[c])
                          => pcH'[c] = "read" /\ sent'[c] = sent[c]]_vars

\* the reply to ping as the wire protocol states it
PongWire == "{\"status\":\"pong\"}\n"

----------------------------------------------------------------------------
(* Properties of the frame relay                                           *)

\* C10: frames published while the worker forwards an earlier one are not missed:
\* the worker does not block in wait() with two publications unread; and each
\* read of the worker observes the newest frame, once
LatestWins ==
    /\ [](\A w \in Conns : pcW[w] = "waiting" /\ wframe[w] # None
                              => FrameIndex(frame) < FrameIndex(wframe[w]) + 2)
    /\ [][\A w \in Conns : pcW[w] = "woken" /\ pcW'[w] = "send"
                              => wframe'[w] = frame /\ wframe'[w] # wframe[w]]_vars

\* the frames the camera can publish
Frames == 2..(2 * MaxFrames + 1)

\* frame f fits one datagram
Admissible(f) == ~(FrameLen(f) > MAX_UDP_PACKET_SIZE)

\* the relay runs and has its target
Relaying == streamer_running /\ target_ip # None /\ target_port # None

\* C11: while the relay runs with a target, an admissible frame in the buffer is
\* eventually handed to sendto by the worker, unless a later publish overwrites
\* it or the relay is stopped first
FrameForwarded ==
    \A f \in Frames :
        (frame = f /\ Admissible(f) /\ Relaying)
            ~> \/ \E w \in Conns : pcW[w] = "sendto" /\ wframe[w] = f
               \/ frame # f
               \/ ~Relaying

\* a caller of the relay's stop() has cleared running and broadcast
StopNotified == \E c \in Conns : pcH[c] = "vs_join"

\* C12: once stop() has cleared running and broadcast its notification, a worker
\* that is alive exits, without a further frame being published
StopWakesSender ==
    \A w \in Conns : \A f \in Frames \cup {None} :
        (StopNotified /\ WorkerAlive(w) /\ frame = f)
            ~> (pcW[w] = "dead" \/ frame # f)

----------------------------------------------------------------------------
(* Properties of VideoStreamer.start                                       *)

\* the owner's call of start() leaves its first statements
StartDecides == pcM = "vb_check" /\ pcM' # "vb_check"

\* the call returns at once and changes nothing of the relay
StartIsNoOp ==
    /\ pcM' = "init"
    /\ UNCHANGED <<pcW, streamer_running, target_ip, target_port, stream_thread>>

\* C13: start() called while the relay is running returns without spawning a
\* sender loop and leaves target address, target port and running as they are,
\* whatever its arguments
StartWhileRunning == [][StartDecides /\ streamer_running => StartIsNoOp]_vars

\* start() with a new, valid target has returned and the relay still runs with
\* the target it had
RestartIgnored ==
    /\ pcM = "init" /\ streamer_running
    /\ start_args[1] # None /\ start_args[2] = UDP_PORT
    /\ target_ip # None /\ target_ip # start_args[1]
    /\ \E w \in Conns : pcW[w] = "none"

\* C14: start() with an empty or absent target address spawns no sender loop and
\* leaves running and the stored target as they are
StartNeedsAddress == [][StartDecides /\ start_args[1] = None => StartIsNoOp]_vars

\* start() without an address has returned: the relay does not run, no target
\* is stored and no thread was created
StartRefused ==
    /\ pcM = "init" /\ ~streamer_running
    /\ start_args[1] = None /\ start_args[2] = UDP_PORT
    /\ target_ip = None /\ target_port = None
    /\ \A w \in Conns : pcW[w] = "none"

\* C15: start() with an address and a port that is not positive spawns no sender
\* loop and leaves running and the stored target as they are
StartNeedsPort ==
    [][StartDecides /\ start_args[1] # None /\ ~(start_args[2] > 0) => StartIsNoOp]_vars

----------------------------------------------------------------------------
(* Properties of the sender loop                                           *)

\* worker w is back at the top of its loop after dropping an oversized frame
Dropped(w) == pcW[w] = "loop" /\ wframe[w] # None /\ ~Admissible(wframe[w])

\* worker w is back at the top of its loop after a sendto that raised
SendFailed(w) ==
    /\ pcW[w] = "loop" /\ wframe[w] # None /\ Admissible(wframe[w])
    /\ \A i \in 1..Len(udp_out) : udp_out[i][1] # wframe[w]

\* C16: the sender loop ends only with running cleared; an oversized frame is
\* never sent; and after a dropped frame or a failed send the loop forwards the
\* next admissible frame that is published
SenderSurvives ==
    /\ [][\A w \in Conns : WorkerAlive(w) /\ pcW'[w] = "dead" => ~streamer_running]_vars
    /\ [](\A i \in 1..Len(udp_out) : Admissible(udp_out[i][1]))
    /\ \A w \in Conns : \A f \in Frames :
         ((Dropped(w) \/ SendFailed(w)) /\ Relaying /\ frame = f /\ Admissible(f)
            /\ FrameIndex(f) > FrameIndex(wframe[w]))
            ~> \/ pcW[w] = "sendto" /\ wframe[w] = f
               \/ frame # f
               \/ ~Relaying

----------------------------------------------------------------------------
(* Properties of the relay within the server                               *)

\* a session has terminated and no handler thread exists or is being started
SessionOver ==
    /\ \E c \in Conns : pcH[c] = "dead"
    /\ \A c \in Conns : pcH[c] \in {"none", "dead"}

\* C17: while the relay's running flag is set the slot holds a live handler, and
\* once a session has terminated, with no new one started and no stop() of the
\* server under way, the relay is not running and its target is cleared
RelayOnlyInSession ==
    /\ streamer_running
         => client_handler_thread # None /\ HandlerAlive(client_handler_thread)
    /\ SessionOver /\ pcM \notin StopLabels
         => ~streamer_running /\ target_ip = None /\ target_port = None

----------------------------------------------------------------------------
(* Controller: RobotClient (examples/commander/trilobot_client.py)         *)
(*                                                                         *)
(* The owner and the reply receivers call into one another's methods, so   *)
(* each has a call stack, innermost frame first.  A frame is the label of  *)
(* the statement it executes next; the frame of a caller holds the label   *)
(* it resumes at.  send_command(action) called by the owner has the labels *)
(* s_*, send_command('exit') called by disconnect() the labels x_*.        *)

Threads == {Owner} \cup Links

robotVars == <<serverVars, sessionVars, relayVars>>
linkVars == <<is_connected, client_running, client_tcp_socket, client_udp_socket>>
sockVars == <<tsock, usock, peer, wire>>
miscVars == <<video_frame, udata, pcU, rsock, links, ops>>

Top(t) == IF stack[t] = <<>> THEN "idle" ELSE Head(stack[t])

\* where an exception raised by a call is handled in the calling frame:
\* disconnect() line 193, _tcp_listen_worker lines 136 and 139
Catch(l) ==
    CASE l = "d_shutdown" -> "d_close"
      [] l = "r_finally" -> "r_finally"
      [] OTHER -> "r_dead"

\* send_command returns as soon as the disconnect() it called returns
RECURSIVE Popped(_)
Popped(s) ==
    IF s # <<>> /\ Head(s) \in {"s_ret", "x_ret"} THEN Popped(Tail(s)) ELSE s

\* an exception leaves send_command's except clause and propagates
RECURSIVE Unwind(_)
Unwind(s) ==
    IF s = <<>> THEN <<>>
    ELSE IF Head(s) \in {"s_ret", "x_ret"} THEN Unwind(Tail(s))
    ELSE <<Catch(Head(s))>> \o Tail(s)

\* thread t goes on with stack s; an empty stack ends the owner's call
Resume(t, s, res) ==
    /\ stack' = [stack EXCEPT ![t] = s]
    /\ last_call' = IF t = Owner /\ s = <<>>
                     THEN [last_call EXCEPT !.result = res]
                     ELSE last_call

Goto(t, l) == Resume(t, <<l>> \o Tail(stack[t]), "returned")
Call(t, resume, l) == Resume(t, <<l, resume>> \o Tail(stack[t]), "returned")
Return(t, res) == Resume(t, Popped(Tail(stack[t])), res)
Raise(t) == Resume(t, Unwind(Tail(stack[t])), "raised")

\* --- disconnect(), lines 179-208 ---

\* `if not self._running: return`
DCheck(t) ==
    /\ Top(t) = "d_check"
    /\ IF client_running THEN Goto(t, "d_clear") ELSE Return(t, "returned")
    /\ UNCHANGED <<linkVars, sockVars, miscVars, disc_raised, robotVars>>

\* `self._running = False`
DClear(t) ==
    /\ Top(t) = "d_clear"
    /\ client_running' = FALSE
    /\ Goto(t, "d_tcp_test")
    /\ UNCHANGED <<is_connected, client_tcp_socket, client_udp_socket>>
    /\ UNCHANGED <<sockVars, miscVars, disc_raised, robotVars>>

\* `if self.tcp_socket:` then `self.send_command('exit')`
DTcpTest(t) ==
    /\ Top(t) = "d_tcp_test"
    /\ IF client_tcp_socket # None
       THEN Call(t, "d_shutdown", "x_check")
       ELSE Goto(t, "d_udp_test")
    /\ UNCHANGED <<linkVars, sockVars, miscVars, disc_raised, robotVars>>

\* `time.sleep(0.1)`, `self.tcp_socket.shutdown(socket.SHUT_RDWR)`;
\* `except Exception: pass`
DShutdown(t) ==
    /\ Top(t) = "d_shutdown"
    /\ tsock' = IF client_tcp_socket # None /\ tsock[client_tcp_socket] = "open"
                THEN [tsock EXCEPT ![client_tcp_socket] = "shut"]
                ELSE tsock
    /\ Goto(t, "d_close")
    /\ UNCHANGED <<linkVars, usock, peer, wire, miscVars, disc_raised, robotVars>>

\* `finally: self.tcp_socket.close()`; on None the AttributeError leaves disconnect()
DClose(t) ==
    /\ Top(t) = "d_close"
    /\ IF client_tcp_socket = None
       THEN /\ Raise(t)
            /\ disc_raised' = TRUE
            /\ UNCHANGED tsock
       ELSE /\ tsock' = [tsock EXCEPT ![client_tcp_socket] = "closed"]
            /\ Goto(t, "d_none")
            /\ UNCHANGED disc_raised
    /\ UNCHANGED <<linkVars, usock, peer, wire, miscVars, robotVars>>

\* `self.tcp_socket = None`
DNone(t) ==
    /\ Top(t) = "d_none"
    /\ client_tcp_socket' = None
    /\ Goto(t, "d_udp_test")
    /\ UNCHANGED <<is_connected, client_running, client_udp_socket>>
    /\ UNCHANGED <<sockVars, miscVars, disc_raised, robotVars>>

\* `if self.udp_socket:`
DUdpTest(t) ==
    /\ Top(t) = "d_udp_test"
    /\ Goto(t, IF client_udp_socket # None THEN "d_udp_close" ELSE "d_unconnect")
    /\ UNCHANGED <<linkVars, sockVars, miscVars, disc_raised, robotVars>>

\* `self.udp_socket.close()`
DUdpClose(t) ==
    /\ Top(t) = "d_udp_close"
    /\ IF client_udp_socket = None
       THEN /\ Raise(t)
            /\ disc_raised' = TRUE
            /\ UNCHANGED usock
       ELSE /\ usock' = [usock EXCEPT ![client_udp_socket] = "closed"]
            /\ Goto(t, "d_udp_none")
            /\ UNCHANGED disc_raised
    /\ UNCHANGED <<linkVars, tsock, peer, wire, miscVars, robotVars>>

\* `self.udp_socket = None`
DUdpNone(t) ==
    /\ Top(t) = "d_udp_none"
    /\ client_udp_socket' = None
    /\ Goto(t, "d_unconnect")
    /\ UNCHANGED <<is_connected, client_running, client_tcp_socket>>
    /\ UNCHANGED <<sockVars, miscVars, disc_raised, robotVars>>

\* `self.is_connected = False`
DUnconnect(t) ==
    /\ Top(t) = "d_unconnect"
    /\ is_connected' = FALSE
    /\ Return(t, "returned")
    /\ UNCHANGED <<client_running, client_tcp_socket, client_udp_socket>>
    /\ UNCHANGED <<sockVars, miscVars, disc_raised, robotVars>>

Disconnect(t) ==
    \/ DCheck(t)
    \/ DClear(t)
    \/ DTcpTest(t)
    \/ DShutdown(t)
    \/ DClose(t)
    \/ DNone(t)
    \/ DUdpTest(t)
    \/ DUdpClose(t)
    \/ DUdpNone(t)
    \/ DUnconnect(t)

\* --- send_command(), lines 161-177 ---

\* `if not self.is_connected or not self.tcp_socket: return`
SendCheck(t) ==
    /\ Top(t) \in {"s_check", "x_check"}
    /\ IF ~is_connected \/ client_tcp_socket = None
       THEN Return(t, "returned")
       ELSE Goto(t, IF Top(t) = "s_check" THEN "s_send" ELSE "x_send")
    /\ UNCHANGED <<linkVars, sockVars, miscVars, disc_raised, robotVars>>

\* sendall can fail on this socket: the attribute is None (AttributeError), the
\* socket is shut down or closed (OSError), or the robot's end is closed
\* (BrokenPipeError, ConnectionResetError)
WriteCanFail ==
    IF client_tcp_socket = None
    THEN TRUE
    ELSE tsock[client_tcp_socket] # "open" \/ peer[client_tcp_socket] # "open"

\* sendall can succeed: the socket is open; a write to a connection the
\* robot has closed is still accepted by the kernel once
WriteCanSucceed ==
    IF client_tcp_socket = None THEN FALSE ELSE tsock[client_tcp_socket] = "open"

\* `self.tcp_socket.sendall(...)`, written
SendAllOk(t) ==
    /\ Top(t) \in {"s_send", "x_send"}
    /\ WriteCanSucceed
    /\ wire' = [wire EXCEPT ![client_tcp_socket] =
                   Append(@, IF Top(t) = "x_send" THEN "exit" ELSE "command")]
    /\ Return(t, "returned")
    /\ UNCHANGED <<linkVars, tsock, usock, peer, miscVars, disc_raised, robotVars>>

\* `self.tcp_socket.sendall(...)` raises; both except clauses call disconnect()
SendAllFails(t) ==
    /\ Top(t) \in {"s_send", "x_send"}
    /\ WriteCanFail
    /\ stack' = [stack EXCEPT ![t] =
                    <<"d_check", IF Top(t) = "s_send" THEN "s_ret" ELSE "x_ret">> \o Tail(@)]
    /\ last_call' = IF Top(t) = "s_send" THEN [last_call EXCEPT !.wfail = TRUE] ELSE last_call
    /\ UNCHANGED <<linkVars, sockVars, miscVars, disc_raised, robotVars>>

SendCommand(t) ==
    \/ SendCheck(t)
    \/ SendAllOk(t)
    \/ SendAllFails(t)

\* --- connect(), lines 42-87, and _cleanup_sockets(), lines 89-97 ---

\* (mutant) connect() without the test of is_connected
ConnectCheckReconnects ==
    /\ links < MaxLinks
    /\ last_call' = [op |-> "connect", result |-> "running", wfail |-> FALSE]
    /\ stack' = [stack EXCEPT ![Owner] = <<"c_tcp_new">>]

\* the owner calls connect(); `if self.is_connected: return True`
ConnectCheck ==
    IF is_connected
    THEN /\ last_call' = [op |-> "connect", result |-> "True", wfail |-> FALSE]
         /\ UNCHANGED stack
    ELSE /\ links < MaxLinks
         /\ last_call' = [op |-> "connect", result |-> "running", wfail |-> FALSE]
         /\ stack' = [stack EXCEPT ![Owner] = <<"c_tcp_new">>]

ConnectCall ==
    /\ stack[Owner] = <<>>
    /\ ops < MaxOps
    /\ ops' = ops + 1
    /\ ConnectCheck
    /\ UNCHANGED <<linkVars, sockVars, video_frame, udata, pcU, rsock, links, disc_raised, robotVars>>

\* `self.tcp_socket = socket.socket(...)`, `settimeout(TCP_TIMEOUT)`
CTcpNew ==
    /\ Top(Owner) = "c_tcp_new"
    /\ links' = links + 1
    /\ client_tcp_socket' = links + 1
    /\ tsock' = [tsock EXCEPT ![links + 1] = "new"]
    /\ Goto(Owner, "c_tcp_connect")
    /\ UNCHANGED <<is_connected, client_running, client_udp_socket>>
    /\ UNCHANGED <<usock, peer, wire, video_frame, udata, pcU, rsock, ops, disc_raised, robotVars>>

\* `self.tcp_socket.connect(...)`: connected, or socket.timeout,
\* ConnectionRefusedError or another Exception, which all clean up
CTcpConnect ==
    /\ Top(Owner) = "c_tcp_connect"
    /\ \/ /\ client_tcp_socket # None
          /\ tsock[client_tcp_socket] = "new"
          /\ tsock' = [tsock EXCEPT ![client_tcp_socket] = "open"]
          /\ peer' = [peer EXCEPT ![client_tcp_socket] = "open"]
          /\ Goto(Owner, "c_udp_new")
       \/ /\ Goto(Owner, "k_tcp")
          /\ UNCHANGED <<tsock, peer>>
    /\ UNCHANGED <<linkVars, usock, wire, miscVars, disc_raised, robotVars>>

\* `self.udp_socket = socket.socket(...)`, `bind(('', self.udp_port))`: the
\* bind raises OSError while an earlier socket is still bound to the port
CUdpNew ==
    /\ Top(Owner) = "c_udp_new"
    /\ client_udp_socket' = links
    /\ IF \E j \in Links : j # links /\ usock[j] = "open"
       THEN /\ usock' = [usock EXCEPT ![links] = "new"]
            /\ Goto(Owner, "k_tcp")
       ELSE /\ usock' = [usock EXCEPT ![links] = "open"]
            /\ Goto(Owner, "c_connected")
    /\ UNCHANGED <<is_connected, client_running, client_tcp_socket>>
    /\ UNCHANGED <<tsock, peer, wire, miscVars, disc_raised, robotVars>>

\* `self.is_connected = True`
CConnected ==
    /\ Top(Owner) = "c_connected"
    /\ is_connected' = TRUE
    /\ Goto(Owner, "c_running")
    /\ UNCHANGED <<client_running, client_tcp_socket, client_udp_socket>>
    /\ UNCHANGED <<sockVars, miscVars, disc_raised, robotVars>>

\* `self._running = True`
CRunning ==
    /\ Top(Owner) = "c_running"
    /\ client_running' = TRUE
    /\ Goto(Owner, "c_udp_thread")
    /\ UNCHANGED <<is_connected, client_tcp_socket, client_udp_socket>>
    /\ UNCHANGED <<sockVars, miscVars, disc_raised, robotVars>>

\* `self._udp_thread = threading.Thread(...)`, `self._udp_thread.start()`
CUdpThread ==
    /\ Top(Owner) = "c_udp_thread"
    /\ pcU' = [pcU EXCEPT ![links] = "loop"]
    /\ Goto(Owner, "c_tcp_thread")
    /\ UNCHANGED <<linkVars, sockVars, video_frame, udata, rsock, links, ops, disc_raised, robotVars>>

\* `self._tcp_recv_thread = threading.Thread(...)`, `.start()`, `return True`
CTcpThread ==
    /\ Top(Owner) = "c_tcp_thread"
    /\ stack' = [stack EXCEPT ![Owner] = <<>>, ![links] = <<"r_loop">>]
    /\ last_call' = [last_call EXCEPT !.result = "True"]
    /\ UNCHANGED <<linkVars, sockVars, miscVars, disc_raised, robotVars>>

\* _cleanup_sockets: `if self.tcp_socket: self.tcp_socket.close(); self.tcp_socket = None`
KTcp ==
    /\ Top(Owner) = "k_tcp"
    /\ tsock' = IF client_tcp_socket # None
                THEN [tsock EXCEPT ![client_tcp_socket] = "closed"]
                ELSE tsock
    /\ client_tcp_socket' = None
    /\ Goto(Owner, "k_udp")
    /\ UNCHANGED <<is_connected, client_running, client_udp_socket>>
    /\ UNCHANGED <<usock, peer, wire, miscVars, disc_raised, robotVars>>

\* _cleanup_sockets: `if self.udp_socket: self.udp_socket.close(); self.udp_socket = None`
KUdp ==
    /\ Top(Owner) = "k_udp"
    /\ usock' = IF client_udp_socket # None
                THEN [usock EXCEPT ![client_udp_socket] = "closed"]
                ELSE usock
    /\ client_udp_socket' = None
    /\ Goto(Owner, "k_unconnect")
    /\ UNCHANGED <<is_connected, client_running, client_tcp_socket>>
    /\ UNCHANGED <<tsock, peer, wire, miscVars, disc_raised, robotVars>>

\* _cleanup_sockets: `self.is_connected = False`; connect: `return False`
KUnconnect ==
    /\ Top(Owner) = "k_unconnect"
    /\ is_connected' = FALSE
    /\ Return(Owner, "False")
    /\ UNCHANGED <<client_running, client_tcp_socket, client_udp_socket>>
    /\ UNCHANGED <<sockVars, miscVars, disc_raised, robotVars>>

Connect ==
    \/ CTcpNew
    \/ CTcpConnect
    \/ CUdpNew
    \/ CConnected
    \/ CRunning
    \/ CUdpThread
    \/ CTcpThread
    \/ KTcp
    \/ KUdp
    \/ KUnconnect

\* the owner calls send_command(action)
SendCall ==
    /\ stack[Owner] = <<>>
    /\ ops < MaxOps
    /\ ops' = ops + 1
    /\ stack' = [stack EXCEPT ![Owner] = <<"s_check">>]
    /\ last_call' = [op |-> "send_command", result |-> "running", wfail |-> FALSE]
    /\ UNCHANGED <<linkVars, sockVars, video_frame, udata, pcU, rsock, links, disc_raised, robotVars>>

\* the owner calls disconnect()
DisconnectCall ==
    /\ stack[Owner] = <<>>
    /\ ops < MaxOps
    /\ ops' = ops + 1
    /\ stack' = [stack EXCEPT ![Owner] = <<"d_check">>]
    /\ last_call' = [op |-> "disconnect", result |-> "running", wfail |-> FALSE]
    /\ UNCHANGED <<linkVars, sockVars, video_frame, udata, pcU, rsock, links, disc_raised, robotVars>>

\* --- _tcp_listen_worker, lines 116-142 ---

\* `while self._running:`
RLoop(n) ==
    /\ Top(n) = "r_loop"
    /\ Goto(n, IF client_running THEN "r_recv" ELSE "r_finally")
    /\ UNCHANGED <<linkVars, sockVars, miscVars, disc_raised, robotVars>>

\* `self.tcp_socket.recv(1024)` is entered: on None, AttributeError
RRecv(n) ==
    /\ Top(n) = "r_recv"
    /\ rsock' = [rsock EXCEPT ![n] = client_tcp_socket]
    /\ Goto(n, IF client_tcp_socket = None THEN "r_finally" ELSE "r_block")
    /\ UNCHANGED <<linkVars, sockVars, video_frame, udata, pcU, links, ops, disc_raised, robotVars>>

\* recv returns bytes of a reply; the lines are logged
RData(n) ==
    /\ Top(n) = "r_block"
    /\ tsock[rsock[n]] = "open" /\ peer[rsock[n]] = "open"
    /\ Goto(n, "r_loop")
    /\ UNCHANGED <<linkVars, sockVars, miscVars, disc_raised, robotVars>>

\* recv returns b'': `self.disconnect()`, `break`
REof(n) ==
    /\ Top(n) = "r_block"
    /\ tsock[rsock[n]] # "open" \/ peer[rsock[n]] # "open"
    /\ Call(n, "r_finally", "d_check")
    /\ UNCHANGED <<linkVars, sockVars, miscVars, disc_raised, robotVars>>

\* recv raises: OSError on a closed socket, ConnectionResetError or
\* ConnectionAbortedError from the robot's end
RError(n) ==
    /\ Top(n) = "r_block"
    /\ tsock[rsock[n]] = "closed" \/ peer[rsock[n]] # "open"
    /\ Goto(n, "r_finally")
    /\ UNCHANGED <<linkVars, sockVars, miscVars, disc_raised, robotVars>>

\* `finally: if self._running: self.disconnect()`
RFinally(n) ==
    /\ Top(n) = "r_finally"
    /\ IF client_running THEN Call(n, "r_dead", "d_check") ELSE Goto(n, "r_dead")
    /\ UNCHANGED <<linkVars, sockVars, miscVars, disc_raised, robotVars>>

TcpListenWorker(n) ==
    \/ RLoop(n)
    \/ RRecv(n)
    \/ RData(n)
    \/ REof(n)
    \/ RError(n)
    \/ RFinally(n)

\* --- _udp_listen_worker, lines 99-114 ---

\* `while self._running:`
ULoop(n) ==
    /\ pcU[n] = "loop"
    /\ pcU' = [pcU EXCEPT ![n] = IF client_running THEN "recv" ELSE "dead"]
    /\ UNCHANGED <<linkVars, sockVars, video_frame, udata, rsock, links, ops>>
    /\ UNCHANGED <<stack, last_call, disc_raised, robotVars>>

UdpReadable ==
    IF client_udp_socket = None THEN FALSE ELSE usock[client_udp_socket] = "open"

\* `data, addr = self.udp_socket.recvfrom(UDP_BUFFER_SIZE)` returns a datagram
URecv(n) ==
    /\ pcU[n] = "recv"
    /\ UdpReadable
    /\ \E addr \in {RobotIp, RobotIp + 1}, data \in 1..MaxData :
         udata' = [udata EXCEPT ![n] = <<addr, data>>]
    /\ pcU' = [pcU EXCEPT ![n] = "got"]
    /\ UNCHANGED <<linkVars, sockVars, video_frame, rsock, links, ops>>
    /\ UNCHANGED <<stack, last_call, disc_raised, robotVars>>

\* (mutant) a receiver that stores a datagram whatever its source address
UStoreAnyAddr(n) ==
    /\ pcU[n] = "got"
    /\ video_frame' = udata[n][2]
    /\ pcU' = [pcU EXCEPT ![n] = "loop"]
    /\ UNCHANGED <<linkVars, sockVars, udata, rsock, links, ops>>
    /\ UNCHANGED <<stack, last_call, disc_raised, robotVars>>

\* `if addr[0] == self.robot_ip: with self._video_lock: self._video_frame = data`
UStore(n) ==
    /\ pcU[n] = "got"
    /\ video_frame' = IF udata[n][1] = RobotIp THEN udata[n][2] ELSE video_frame
    /\ pcU' = [pcU EXCEPT ![n] = "loop"]
    /\ UNCHANGED <<linkVars, sockVars, udata, rsock, links, ops>>
    /\ UNCHANGED <<stack, last_call, disc_raised, robotVars>>

\* recvfrom raises socket.timeout: `continue`
UTimeout(n) ==
    /\ pcU[n] = "recv"
    /\ UdpReadable
    /\ pcU' = [pcU EXCEPT ![n] = "loop"]
    /\ UNCHANGED <<linkVars, sockVars, video_frame, udata, rsock, links, ops>>
    /\ UNCHANGED <<stack, last_call, disc_raised, robotVars>>

\* recvfrom raises (the socket is closed, or the attribute is None): `break`
UError(n) ==
    /\ pcU[n] = "recv"
    /\ ~UdpReadable
    /\ pcU' = [pcU EXCEPT ![n] = "dead"]
    /\ UNCHANGED <<linkVars, sockVars, video_frame, udata, rsock, links, ops>>
    /\ UNCHANGED <<stack, last_call, disc_raised, robotVars>>

UdpListenWorker(n) ==
    \/ ULoop(n)
    \/ URecv(n)
    \/ UStore(n)
    \/ UTimeout(n)
    \/ UError(n)

\* the robot closes its end of connection k (session ended, server stopped)
PeerClose(k) ==
    /\ peer[k] = "open"
    /\ peer' = [peer EXCEPT ![k] = "closed"]
    /\ UNCHANGED <<linkVars, tsock, usock, wire, miscVars>>
    /\ UNCHANGED <<stack, last_call, disc_raised, robotVars>>

\* The link manager: connect, send_command, disconnect and the reply
\* receivers.  The video receivers read _running and udp_socket and write
\* only _video_frame, which no method of the link manager reads.
LinkNext ==
    \/ ConnectCall
    \/ Connect
    \/ SendCall
    \/ DisconnectCall
    \/ \E t \in Threads : SendCommand(t) \/ Disconnect(t)
    \/ \E n \in Links : TcpListenWorker(n)
    \/ \E k \in Links : PeerClose(k)

LinkSpec == Init /\ [][LinkNext]_vars

\* The whole controller
ClientNext ==
    \/ LinkNext
    \/ \E n \in Links : UdpListenWorker(n)

ClientSpec == Init /\ [][ClientNext]_vars

\* The video receivers with the owner's calls of connect() and disconnect().
\* The reply receivers are left out: a video receiver sees them only through
\* _running and udp_socket, which the owner's disconnect() writes the same way.
VideoNext ==
    \/ ConnectCall
    \/ Connect
    \/ DisconnectCall
    \/ \E t \in Threads : SendCommand(t) \/ Disconnect(t)
    \/ \E n \in Links : UdpListenWorker(n)
    \/ \E k \in Links : PeerClose(k)

VideoSpec == Init /\ [][VideoNext]_vars

----------------------------------------------------------------------------
(* Claims: controller                                                      *)

ReceiverLabels == {"r_loop", "r_recv", "r_block", "r_finally", "r_dead"}

\* thread t is inside connect(), send_command() or disconnect()
InCall(t) == \E i \in 1..Len(stack[t]) : stack[t][i] \notin ReceiverLabels

\* the link is disconnected: flags false, both endpoints closed and cleared
Disconnected ==
    /\ ~is_connected
    /\ ~client_running
    /\ client_tcp_socket = None
    /\ client_udp_socket = None
    /\ \A k \in Links : tsock[k] \in {"none", "closed"} /\ usock[k] \in {"none", "closed"}

\* number of terminate commands written on connection k
ExitsSent(k) == Cardinality({i \in 1..Len(wire[k]) : wire[k][i] = "exit"})

\* C18: disconnect() is idempotent and safe under concurrent invocation: no
\* call of it ends with an error, the terminate command is sent at most once
\* on a link, and once every call has returned (no connect() having followed)
\* the link is disconnected.
DisconnectSafe ==
    /\ ~disc_raised
    /\ \A k \in Links : ExitsSent(k) <= 1
    /\ (links <= 1 /\ ~client_running /\ \A t \in Threads : ~InCall(t)) => Disconnected

\* C19: connect() called while connected reports success and changes
\* nothing: no flag, no endpoint, no socket, no thread.
ConnectIdempotent ==
    [][ConnectCall /\ is_connected
         => /\ last_call'.result = "True"
            /\ UNCHANGED <<linkVars, sockVars, stack, pcU, rsock, links, video_frame>>]_vars

\* connect() then send_command() then connect() again on the same link
ReconnectIgnored ==
    /\ ops = 3
    /\ links = 1
    /\ stack[Owner] = <<>>
    /\ last_call.op = "connect" /\ last_call.result = "True"
    /\ is_connected
    /\ wire[1] = <<"command">>

\* the owner's send_command, whose write failed, returns or raises
FailedSendEnds ==
    /\ last_call.op = "send_command"
    /\ last_call.wfail
    /\ stack[Owner] # <<>>
    /\ stack'[Owner] = <<>>

\* C20: when the write of send_command fails, the send returns without
\* raising and leaves the link disconnected: not connected, not running,
\* both endpoints closed.
FailedSendDisconnects ==
    [][FailedSendEnds => last_call'.result = "returned" /\ Disconnected']_vars

\* the video receiver n handles the datagram it received
Stores(n) == pcU[n] = "got" /\ pcU'[n] = "loop"

\* C21: the video receiver stores a datagram into the latest-frame holder
\* only when its source is the robot's address, and then unconditionally;
\* a datagram from another address leaves the held frame unchanged, and
\* nothing else writes the holder.
VideoFromRobotOnly ==
    [][/\ \A n \in Links :
            Stores(n) => video_frame' = IF udata[n][1] = RobotIp
                                        THEN udata[n][2]
                                        ELSE video_frame
       /\ (\A n \in Links : ~Stores(n)) => video_frame' = video_frame]_vars

\* a datagram from another address has been handled while a different frame is held
ForeignDatagramDropped ==
    \E n \in Links :
        /\ pcU[n] = "loop"
        /\ udata[n][1] # None /\ udata[n][1] # RobotIp
        /\ video_frame # None /\ video_frame # udata[n][2]

----------------------------------------------------------------------------
(* Claims: movement commands and fatal errors                              *)

OneSpeedActions == {"forward", "backward", "turn_left", "turn_right"}

\* the fields of line i, an object
Fields(i) == SessionLines[i].val.v

\* field k of line i is omitted or a number
NumberOrOmitted(i, k) == k \in DOMAIN Fields(i) => Fields(i)[k].t = "num"

\* the number line i declares for field k, or the documented default
Declared(i, k, default) == IF k \in DOMAIN Fields(i) THEN Fields(i)[k].v ELSE default

\* line i is a valid movement command
ValidMovement(i) ==
    \/ \E a \in OneSpeedActions : IsCommand(i, a) /\ NumberOrOmitted(i, "speed")
    \/ IsCommand(i, "set_speeds") /\ NumberOrOmitted(i, "left") /\ NumberOrOmitted(i, "right")

\* the actuator call the protocol documents for the valid movement command i
MovementCall(i) ==
    IF IsCommand(i, "set_speeds")
    THEN <<"set_motor_speeds", Declared(i, "left", 0), Declared(i, "right", 0)>>
    ELSE <<CHOOSE a \in OneSpeedActions : IsCommand(i, a), Declared(i, "speed", 10)>>

\* C22: a valid movement command makes exactly one actuator call, the
\* matching operation with the declared speeds or the defaults (speed 1.0,
\* left 0.0, right 0.0), and sends no reply.
MovementDispatched ==
    [][\A c \in Conns : Dispatched(c) /\ line[c] # 0 /\ ValidMovement(line[c])
                          => /\ calls' = Append(calls, MovementCall(line[c]))
                             /\ sent'[c] = sent[c]]_vars

\* forward without a speed, then set_speeds with only `left`, have been dispatched
MovementDefaultsUsed ==
    calls = << <<"forward", 10>>, <<"set_motor_speeds", 5, 0>> >>

\* SessionSpec with the handler's finally block scheduled fairly: the thread
\* keeps running and the join inside video_streamer.stop() is bounded
SessionLiveSpec ==
    SessionInit /\ [][SessionNext]_vars /\ \A c \in Conns : WF_vars(Teardown(c))

\* the handler of c returns from a _parse_command that ended in `except Exception`
FatalDispatch(c) ==
    /\ Dispatched(c)
    /\ line[c] # 0
    /\ \E sendOk \in BOOLEAN, dist \in Distances :
         LET o == ParseCommand(SessionLines[line[c]], sendOk, dist)
         IN  o.exc = "Exception" /\ sent'[c] = sent[c] \o o.reply

\* the finally block of the handler of c has run
CleanedUp(c) ==
    /\ pcH[c] = "dead"
    /\ cst[c] = "closed"
    /\ client_handler_thread = None
    /\ ~streamer_running

\* C23: an exception of the dispatcher that is not an anticipated protocol
\* error ends the read loop: no further line is read, and the cleanup runs
\* (relay stopped, connection closed, slot cleared).
FatalEndsSession ==
    /\ [][\A c \in Conns : FatalDispatch(c) => pcH'[c] = "vs_check"]_vars
    /\ [][\A c \in Conns : TearingDown(c) => pcH'[c] \notin {"read", "parse"}]_vars
    /\ \A c \in Conns : TearingDown(c) ~> CleanedUp(c)

\* the reply to read_distance could not be written and the session was cleaned up
WriteFailureCleanedUp ==
    /\ CleanedUp(1)
    /\ calls = << <<"read_distance">> >>
    /\ sent[1] = <<>>

----------------------------------------------------------------------------
(* Claims: accept loop and shutdown                                        *)

\* C24: while the server is running the accept loop never exits, whatever
\* fails while one accepted connection is handled.
AcceptLoopSurvives == running => pcL \notin {"done", "dead"}

\* C25: once stop() has cleared the running flag no connection is promoted
\* to a Session Handler and the relay is not started.
NoSessionAfterStop ==
    [][StopCalled => /\ \A c \in Conns : pcH[c] = "none" => pcH'[c] = "none"
                     /\ ~streamer_running => ~streamer_running']_vars

----------------------------------------------------------------------------
(* Claims: relay threads                                                   *)

\* worker w has taken a frame to forward
Sending(w) == pcW[w] \in {"send", "sendto"}

\* C26: at most one sender loop forwards frames at any time, over any
\* sequence of start() and stop(), a stop() whose join timed out included.
OneSenderLoop == \A a, b \in Conns : Sending(a) /\ Sending(b) => a = b

\* C27: whenever the relay's running flag is true its target address and
\* port are set, in every interleaving of the stop() of a server shutdown,
\* the stop() of a terminating handler and the start() of a new handler.
RunningHasTarget == streamer_running => target_ip # None /\ target_port # None

----------------------------------------------------------------------------
(* Claims: receivers of an earlier link                                    *)

\* the reply receiver of link n is blocked in recv
ReplyReceiving(n) == Top(n) = "r_block"

\* the video receiver of link n is about to call recvfrom on an open endpoint
VideoReceiving(n) == pcU[n] = "recv" /\ UdpReadable

\* the reply receiver of link n takes a step
ReceiverSteps(n) == stack'[n] # stack[n] /\ stack[n] # <<>>

\* C28: the receiver loops started by one connect() never affect a later
\* link: they receive only on the endpoints of their own link, and they
\* shut down, close or clear only the endpoints of their own link and
\* clear the running flag only while theirs is the current link.
StaleReceiversHarmless ==
    /\ [](\A n \in Links : ReplyReceiving(n) => rsock[n] = n)
    /\ [](\A n \in Links : VideoReceiving(n) => client_udp_socket = n)
    /\ [][\A n \in Links :
            ReceiverSteps(n) /\ links # n
              => /\ tsock' = tsock /\ usock' = usock
                 /\ client_tcp_socket' = client_tcp_socket
                 /\ client_udp_socket' = client_udp_socket
                 /\ client_running' = client_running
                 /\ is_connected' = is_connected]_vars

====
